---- MODULE Spec2Model ----
(***************************************************************************)
(* Model of streamlit_app.py: the hawker-centre closure checker.           *)
(*                                                                         *)
(* The script is run top to bottom once per user interaction.  A state of  *)
(* the model is the state after one complete run: the raw table, the       *)
(* loaded table, the widget values, the session state and everything the   *)
(* run displayed.  Dates are proleptic Gregorian day ordinals; NaT is 0.   *)
(* A raw cell is the sequence of its characters; an empty cell (read by    *)
(* pandas as NaN) is the empty sequence.                                   *)
(***************************************************************************)
EXTENDS Integers, Sequences, FiniteSets, TLC

VARIABLES csv, df, today, selected, favourites, addLog,
          closures, warning, status, closed_today, upcoming, upcoming_msg,
          events, nearby_open, nearby_shown, nearby_msg, markers

vars == <<csv, df, today, selected, favourites, addLog,
          closures, warning, status, closed_today, upcoming, upcoming_msg,
          events, nearby_open, nearby_shown, nearby_msg, markers>>

(***************************************************************************)
(* Bounds of the model.                                                    *)
(***************************************************************************)
\* calendar days 1 January .. MaxDay January of DataYear occur in the data
MaxDay == 2
\* at most this many of a row's five (start, end) pairs are filled in
MaxFilled == 2
\* rows of the table in the proximity datasets
NumRows == 3

DataYear == 2025

(***************************************************************************)
(* Program constants.                                                      *)
(***************************************************************************)
\* df['distance'] < 2
RadiusKm == 2

NaT == 0

\* the columns of one row: q1..q4 cleaning, then other works
Quarters == 1 .. 4
OtherWorks == 5
Cols == 1 .. 5

ColType(c) == IF c \in Quarters THEN "Cleaning" ELSE "Other Works"

ColRemarks(c) ==
  <<"remarks_q1", "remarks_q2", "remarks_q3", "remarks_q4",
    "remarks_other_works">>[c]

(***************************************************************************)
(* Text and calendar helpers.                                              *)
(***************************************************************************)
Digits == <<"0", "1", "2", "3", "4", "5", "6", "7", "8", "9">>

IsDigit(ch) == \E i \in 1 .. 10 : Digits[i] = ch

DigitVal(ch) == (CHOOSE i \in 1 .. 10 : Digits[i] = ch) - 1

DigitChar(n) == Digits[n + 1]

RECURSIVE NumVal(_)
NumVal(t) ==
  IF t = <<>> THEN 0
  ELSE 10 * NumVal(SubSeq(t, 1, Len(t) - 1)) + DigitVal(t[Len(t)])

IsLeap(y) == (y % 4 = 0 /\ y % 100 # 0) \/ y % 400 = 0

DaysInMonth(y, m) ==
  IF m = 2 THEN (IF IsLeap(y) THEN 29 ELSE 28)
  ELSE IF m \in {4, 6, 9, 11} THEN 30 ELSE 31

RECURSIVE DaysBeforeMonth(_, _)
DaysBeforeMonth(y, m) ==
  IF m = 1 THEN 0 ELSE DaysBeforeMonth(y, m - 1) + DaysInMonth(y, m - 1)

\* datetime.date(y, m, d).toordinal()
ToOrdinal(y, m, d) ==
  365 * (y - 1) + ((y - 1) \div 4) - ((y - 1) \div 100) + ((y - 1) \div 400)
    + DaysBeforeMonth(y, m) + d

\* a date written the way the CSV writes it: DDMMYYYY
DDMMYYYY(d, m, y) ==
  <<DigitChar(d \div 10), DigitChar(d % 10),
    DigitChar(m \div 10), DigitChar(m % 10),
    DigitChar(y \div 1000), DigitChar((y \div 100) % 10),
    DigitChar((y \div 10) % 10), DigitChar(y % 10)>>

TBC == <<"T", "B", "C">>

\* Series.str.contains(sub)
Contains(text, sub) ==
  \E i \in 1 .. (Len(text) - Len(sub) + 1) :
     SubSeq(text, i, i + Len(sub) - 1) = sub

(***************************************************************************)
(* pd.to_datetime(..., format='%d%m%Y', errors='coerce') on one cell.      *)
(* The format is matched as the regular expression                         *)
(*   (3[0-1]|[1-2]\d|0[1-9]|[1-9]| [1-9]) (1[0-2]|0[1-9]|[1-9]) (\d\d\d\d)  *)
(* whose first match (alternatives in order, with backtracking) must end   *)
(* at the end of the text; a field out of range, or a day the month does   *)
(* not have, is a parse failure, which errors='coerce' turns into NaT.     *)
(***************************************************************************)
DayToken(t) ==
  \/ /\ Len(t) = 2
     /\ \/ t[1] = "3" /\ t[2] \in {"0", "1"}
        \/ t[1] \in {"1", "2"} /\ IsDigit(t[2])
        \/ t[1] = "0" /\ IsDigit(t[2]) /\ t[2] # "0"
        \/ t[1] = " " /\ IsDigit(t[2]) /\ t[2] # "0"
  \/ Len(t) = 1 /\ IsDigit(t[1]) /\ t[1] # "0"

MonthToken(t) ==
  \/ /\ Len(t) = 2
     /\ \/ t[1] = "1" /\ t[2] \in {"0", "1", "2"}
        \/ t[1] = "0" /\ IsDigit(t[2]) /\ t[2] # "0"
  \/ Len(t) = 1 /\ IsDigit(t[1]) /\ t[1] # "0"

YearToken(t) == Len(t) = 4 /\ \A i \in 1 .. 4 : IsDigit(t[i])

\* the token lengths the expression tries, in its order of preference
TokenSplits == <<<<2, 2>>, <<2, 1>>, <<1, 2>>, <<1, 1>>>>

SplitMatches(text, k) ==
  LET dl == TokenSplits[k][1]
      ml == TokenSplits[k][2]
  IN  /\ Len(text) >= dl + ml + 4
      /\ DayToken(SubSeq(text, 1, dl))
      /\ MonthToken(SubSeq(text, dl + 1, dl + ml))
      /\ YearToken(SubSeq(text, dl + ml + 1, dl + ml + 4))

StripSpace(t) == SelectSeq(t, LAMBDA ch : ch # " ")

\* Strptime matching a prefix of the text (exact=False)
StrptimeInexact(text) ==
  IF \A k \in 1 .. 4 : ~SplitMatches(text, k) THEN NaT
  ELSE LET k  == CHOOSE j \in 1 .. 4 :
                   SplitMatches(text, j) /\ \A i \in 1 .. (j - 1) : ~SplitMatches(text, i)
           dl == TokenSplits[k][1]
           ml == TokenSplits[k][2]
           d  == NumVal(StripSpace(SubSeq(text, 1, dl)))
           m  == NumVal(SubSeq(text, dl + 1, dl + ml))
           y  == NumVal(SubSeq(text, dl + ml + 1, dl + ml + 4))
       IN  IF y < 1 \/ d > DaysInMonth(y, m) THEN NaT
           ELSE ToOrdinal(y, m, d)

Strptime(text) ==
  IF \A k \in 1 .. 4 : ~SplitMatches(text, k) THEN NaT
  ELSE LET k  == CHOOSE j \in 1 .. 4 :
                   SplitMatches(text, j) /\ \A i \in 1 .. (j - 1) : ~SplitMatches(text, i)
           dl == TokenSplits[k][1]
           ml == TokenSplits[k][2]
           d  == NumVal(StripSpace(SubSeq(text, 1, dl)))
           m  == NumVal(SubSeq(text, dl + 1, dl + ml))
           y  == NumVal(SubSeq(text, dl + ml + 1, dl + ml + 4))
       IN  IF Len(text) # dl + ml + 4 THEN NaT
           ELSE IF y < 1 \/ d > DaysInMonth(y, m) THEN NaT
           ELSE ToOrdinal(y, m, d)

\* one cell of a date column, as lines 21-24 treat it: the cell is blanked
\* when its text contains "TBC", then parsed
NormalizeDate(text) ==
  IF Contains(text, TBC) THEN NaT ELSE Strptime(text)

notna(x) == x # NaT

\* load_data(): every date column of every row is normalized
load_data(table) ==
  [i \in DOMAIN table |->
     [table[i] EXCEPT !.startdate = [c \in Cols |-> NormalizeDate(@[c])],
                      !.enddate = [c \in Cols |-> NormalizeDate(@[c])]]]

(***************************************************************************)
(* The script body, lines 27-183, as functions of the loaded table, the    *)
(* date and the selectbox value.                                           *)
(***************************************************************************)
Abs(x) == IF x < 0 THEN -x ELSE x

\* geodesic(p, q).km for two points of one meridian, their latitudes given as
\* whole kilometres of arc along it (every modelled centre has longitude 0)
geodesic(lat1, lon1, lat2, lon2) == Abs(lat1 - lat2)

\* sorted(df['name'].unique()): the names are listed in NameOrder's order
NameOrder == <<"Adam Road", "Bedok">>

NameSet(table) == {table[i].name : i \in DOMAIN table}

centres(table) == SelectSeq(NameOrder, LAMBDA n : n \in NameSet(table))

\* df[df['name'] == selected].iloc[0]
selected_row(table, sel) ==
  table[CHOOSE i \in DOMAIN table :
          table[i].name = sel /\ \A j \in 1 .. (i - 1) : table[j].name # sel]

ClosureOf(row, c) ==
  [start |-> row.startdate[c], end |-> row.enddate[c],
   remarks |-> ColRemarks(c), type |-> ColType(c)]

\* PairKept with "or" for "and"
PairKeptEither(row, c) == notna(row.startdate[c]) \/ notna(row.enddate[c])

\* a pair is appended when both of its bounds are not NaT
PairKept(row, c) == notna(row.startdate[c]) /\ notna(row.enddate[c])

\* lines 38-53: the quarters in order, then other works
build_closures(row) ==
  LET cleaning == SelectSeq(<<1, 2, 3, 4>>, LAMBDA q : PairKept(row, q))
      other    == IF PairKept(row, OtherWorks) THEN <<OtherWorks>> ELSE <<>>
      kept     == cleaning \o other
  IN  [i \in 1 .. Len(kept) |-> ClosureOf(row, kept[i])]

\* diagnostic without its first branch
diagnostic_unless_empty(cl) ==
  IF (\A i \in DOMAIN cl : ~notna(cl[i].start))
       \/ (\A i \in DOMAIN cl : ~notna(cl[i].end))
  THEN "all_tbc_or_incomplete"
  ELSE "none"

\* lines 59-62
diagnostic(cl) ==
  IF cl = <<>> THEN "no_confirmed_dates"
  ELSE IF (\A i \in DOMAIN cl : ~notna(cl[i].start))
            \/ (\A i \in DOMAIN cl : ~notna(cl[i].end))
       THEN "all_tbc_or_incomplete"
       ELSE "none"

\* CoversToday with the end day left out
CoversTodayOpenEnd(c, day) == c.start <= day /\ c.end > day

\* lines 66-68
CoversToday(c, day) == c.start <= day /\ c.end >= day

filter_closed_today(cl, day) == SelectSeq(cl, LAMBDA c : CoversToday(c, day))

\* lines 65-75
status_of(cl, day) ==
  IF cl # <<>> /\ filter_closed_today(cl, day) # <<>> THEN "CLOSED" ELSE "OPEN"

\* StartsAfter with the date itself let in
StartsOnOrAfter(c, day) == c.start >= day

\* line 79
StartsAfter(c, day) == c.start > day

filter_upcoming(cl, day) ==
  IF cl # <<>> THEN SelectSeq(cl, LAMBDA c : StartsAfter(c, day)) ELSE <<>>

\* lines 78-87
upcoming_message(cl, day) ==
  IF cl # <<>>
  THEN (IF filter_upcoming(cl, day) # <<>> THEN "upcoming" ELSE "no_upcoming")
  ELSE "no_closure_data"

\* lines 103-112: one calendar event per upcoming row
calendar_events(sel, up) ==
  [i \in DOMAIN up |->
     [centre |-> sel, type |-> up[i].type, begin |-> up[i].start,
      end |-> up[i].end, description |-> up[i].remarks]]

\* PairClosesToday with the end day left out
PairClosesTodayOpenEnd(row, c, day) ==
  /\ notna(row.startdate[c])
  /\ notna(row.enddate[c])
  /\ row.startdate[c] <= day
  /\ day < row.enddate[c]

\* lines 123-133
PairClosesToday(row, c, day) ==
  /\ notna(row.startdate[c])
  /\ notna(row.enddate[c])
  /\ row.startdate[c] <= day
  /\ day <= row.enddate[c]

is_open_today(row, day) ==
  IF \E q \in Quarters : PairClosesToday(row, q, day) THEN FALSE
  ELSE IF PairClosesToday(row, OtherWorks, day) THEN FALSE
  ELSE TRUE

\* line 119
distance_of(table, sel, i) ==
  LET ref == selected_row(table, sel)
  IN  geodesic(ref.latitude_hc, ref.longitude_hc,
               table[i].latitude_hc, table[i].longitude_hc)

\* IsNearby with the radius itself let in
IsNearbyInclusive(table, sel, i) ==
  table[i].name # sel /\ distance_of(table, sel, i) <= RadiusKm

\* line 120
IsNearby(table, sel, i) ==
  table[i].name # sel /\ distance_of(table, sel, i) < RadiusKm

RECURSIVE IndexSeq(_)
IndexSeq(n) == IF n = 0 THEN <<>> ELSE Append(IndexSeq(n - 1), n)

\* lines 120-136: the rows kept, in table order, as (name, distance)
filter_nearby_open(table, sel, day) ==
  LET kept == SelectSeq(IndexSeq(Len(table)),
                        LAMBDA i : IsNearby(table, sel, i)
                                     /\ is_open_today(table[i], day))
  IN  [k \in 1 .. Len(kept) |->
         [name |-> table[kept[k]].name,
          distance |-> distance_of(table, sel, kept[k])]]

\* DataFrame.drop_duplicates(): a row equal to an earlier row is dropped
RECURSIVE drop_duplicates(_)
drop_duplicates(s) ==
  IF s = <<>> THEN <<>>
  ELSE LET init == drop_duplicates(SubSeq(s, 1, Len(s) - 1))
           last == s[Len(s)]
       IN  IF \E i \in DOMAIN init : init[i] = last THEN init
           ELSE Append(init, last)

\* DataFrame.sort_values('distance'), default kind='quicksort', which is not
\* a stable sort: every ascending arrangement of the rows is a possible result
sort_values(s) ==
  LET n     == Len(s)
      perms == {p \in [1 .. n -> 1 .. n] :
                  /\ \A i, j \in 1 .. n : i # j => p[i] # p[j]
                  /\ \A i \in 1 .. (n - 1) : s[p[i]].distance <= s[p[i + 1]].distance}
  IN  {[i \in 1 .. n |-> s[p[i]]] : p \in perms}

\* lines 176-183
map_markers(table, day) ==
  [i \in DOMAIN table |->
     [name |-> table[i].name, closed |-> ~is_open_today(table[i], day)]]

\* add_favourite without the membership test
add_favourite_unchecked(favs, sel, pressed) ==
  IF pressed THEN Append(favs, sel) ELSE favs

\* lines 93-95: the button's branch
add_favourite(favs, sel, pressed) ==
  IF pressed /\ \A i \in DOMAIN favs : favs[i] # sel
  THEN Append(favs, sel) ELSE favs

\* lines 138-141: the table shown, in each order the sort may leave it in
show_nearby(nb) ==
  IF nb # <<>> THEN sort_values(drop_duplicates(nb)) ELSE {<<>>}

(***************************************************************************)
(* One run of the script with the selectbox holding sel; pressed says      *)
(* whether the run was caused by the favourites button.                    *)
(***************************************************************************)
Script(sel, pressed) ==
  /\ UNCHANGED <<csv, df, today>>
  /\ selected' = sel
  /\ closures' = build_closures(selected_row(df, sel))
  /\ warning' = diagnostic(closures')
  /\ closed_today' = (IF closures' # <<>> THEN filter_closed_today(closures', today)
                      ELSE <<>>)
  /\ status' = status_of(closures', today)
  /\ upcoming' = filter_upcoming(closures', today)
  /\ upcoming_msg' = upcoming_message(closures', today)
  /\ favourites' = add_favourite(favourites, sel, pressed)
  /\ addLog' = (IF pressed THEN addLog \cup {sel} ELSE addLog)
  /\ events' = calendar_events(sel, upcoming')
  /\ nearby_open' = filter_nearby_open(df, sel, today)
  /\ nearby_shown' \in show_nearby(nearby_open')
  /\ nearby_msg' = (IF nearby_open' # <<>> THEN "table" ELSE "none_nearby")
  /\ markers' = map_markers(df, today)

\* the user picks another centre in the selectbox
SelectCentre(n) ==
  /\ n # selected
  /\ Script(n, FALSE)

\* the user presses "Add to Favourites"
AddToFavourites == Script(selected, TRUE)

Next ==
  \/ \E n \in NameSet(df) : SelectCentre(n)
  \/ AddToFavourites

(***************************************************************************)
(* The datasets and dates the model is run on.                             *)
(***************************************************************************)
Empty == <<>>

Days == 1 .. MaxDay

\* the days the page is looked at: 31 December to MaxDay January
ViewDays == 0 .. MaxDay

Day(d) == ToOrdinal(DataYear, 1, d)

DateText(d) == DDMMYYYY(d, 1, DataYear)

\* what a filled-in date cell holds: a date or the placeholder
CellTexts == {DateText(d) : d \in Days} \cup {TBC}

\* texts that are no date of the format: an impossible day, separators,
\* a placeholder with a date after it, a day too many digits long
OddTexts ==
  {<<"3", "1", "0", "2", "2", "0", "2", "5">>,
   <<"1", "/", "1", "/", "2", "0", "2", "5">>,
   TBC \o DateText(1),
   DateText(1) \o <<"0">>}

BlankCells == [c \in Cols |-> Empty]

\* the sets of at most MaxFilled of a row's five pairs
FilledSets == {T \in SUBSET Cols : Cardinality(T) <= MaxFilled}

\* the cells of a row whose pairs in S hold the texts f gives, the rest empty
FilledCells(S, f) ==
  [startdate |-> [c \in Cols |-> IF c \in S THEN f[c][1] ELSE Empty],
   enddate |-> [c \in Cols |-> IF c \in S THEN f[c][2] ELSE Empty]]

MakeRow(n, lat, cells) ==
  [name |-> n, latitude_hc |-> lat, longitude_hc |-> 0,
   startdate |-> cells.startdate, enddate |-> cells.enddate]

\* the state after the first run of the script on table t at date d: the
\* selectbox shows its first option, nothing has been pressed
FirstRun(t, d) ==
  /\ csv = t
  /\ df = load_data(csv)
  /\ today = d
  /\ selected = centres(df)[1]
  /\ favourites = <<>>
  /\ addLog = {}
  /\ closures = build_closures(selected_row(df, selected))
  /\ warning = diagnostic(closures)
  /\ closed_today = (IF closures # <<>> THEN filter_closed_today(closures, today)
                     ELSE <<>>)
  /\ status = status_of(closures, today)
  /\ upcoming = filter_upcoming(closures, today)
  /\ upcoming_msg = upcoming_message(closures, today)
  /\ events = calendar_events(selected, upcoming)
  /\ nearby_open = filter_nearby_open(df, selected, today)
  /\ nearby_shown \in show_nearby(nearby_open)
  /\ nearby_msg = (IF nearby_open # <<>> THEN "table" ELSE "none_nearby")
  /\ markers = map_markers(df, today)

BlankRow(n, lat) ==
  MakeRow(n, lat, [startdate |-> BlankCells, enddate |-> BlankCells])

\* closure data: one centre with up to MaxFilled of its pairs filled in by
\* dates and placeholders, looked at on any of the days
InitClosureData ==
  \E S \in FilledSets :
    \E f \in [S -> CellTexts \X CellTexts], d \in ViewDays :
       FirstRun(<<MakeRow(NameOrder[1], 0, FilledCells(S, f))>>, Day(d))

\* malformed data: one centre with one pair whose cells hold any text
AllTexts == CellTexts \cup OddTexts \cup {Empty}

InitMalformedData ==
  \E c \in Cols, s \in AllTexts, e \in AllTexts, d \in ViewDays :
     FirstRun(<<MakeRow(NameOrder[1], 0,
                        [startdate |-> [BlankCells EXCEPT ![c] = s],
                         enddate |-> [BlankCells EXCEPT ![c] = e]])>>, Day(d))

\* a row that is closed on 1 January only, for cleaning or for other works
ClosedRow(n, lat, c) ==
  MakeRow(n, lat, [startdate |-> [BlankCells EXCEPT ![c] = DateText(1)],
                   enddate |-> [BlankCells EXCEPT ![c] = DateText(1)]])

\* proximity data: up to NumRows rows on a line, 0 to RadiusKm kilometres up
\* it, names possibly repeated, each row closed on 1 January or never, looked
\* at on 1 January
InitProximityData ==
  \E n \in 1 .. NumRows :
    \E names \in [1 .. n -> {NameOrder[i] : i \in DOMAIN NameOrder}],
       lats \in [1 .. n -> 0 .. RadiusKm],
       shut \in SUBSET (1 .. n) :
         FirstRun([i \in 1 .. n |->
                     IF i \in shut
                     THEN ClosedRow(names[i], lats[i], IF i % 2 = 1 THEN 1 ELSE OtherWorks)
                     ELSE BlankRow(names[i], lats[i])],
                  Day(1))

Init == InitClosureData \/ InitMalformedData \/ InitProximityData

Spec == Init /\ [][Next]_vars

(***************************************************************************)
(* Properties.  The definitions below restate what the specification says  *)
(* in terms of the raw table and the displayed results.                    *)
(***************************************************************************)
Range(q) == {q[i] : i \in DOMAIN q}

NoRepeat(q) == \A i, j \in DOMAIN q : i # j => q[i] # q[j]

\* the row the selectbox value stands for: the first row carrying that name
RowShown == CHOOSE r \in DOMAIN df :
              df[r].name = selected /\ \A j \in 1 .. (r - 1) : df[j].name # selected

NamesUnique == \A i, j \in DOMAIN df : i # j => df[i].name # df[j].name

\* the intervals of row r: the pairs with both bounds resolved
IntervalsOf(r) ==
  {<<df[r].startdate[c], df[r].enddate[c]>> :
     c \in {k \in Cols : df[r].startdate[k] # NaT /\ df[r].enddate[k] # NaT}}

ClosedOn(r, day) == \E iv \in IntervalsOf(r) : iv[1] <= day /\ day <= iv[2]

\* the column a displayed closure came from
ColOf(cl) == CHOOSE c \in Cols : ColRemarks(c) = cl.remarks

\* C1: a centre is reported closed on a date exactly when one of its
\* intervals [s, e] has s <= date <= e, both ends included; this holds for
\* the status of the selected centre and for every marker, and a centre
\* without intervals is reported open.
C1_ClosedIffInsideInterval ==
  /\ status = "CLOSED" <=> ClosedOn(RowShown, today)
  /\ \A r \in DOMAIN df : markers[r].closed <=> ClosedOn(r, today)
  /\ \A r \in DOMAIN df : IntervalsOf(r) = {} => ~markers[r].closed
  /\ closures = <<>> => status = "OPEN"

\* a centre looked at on the last day of an interval longer than a day
C1_Witness ==
  /\ status = "CLOSED"
  /\ \E i \in DOMAIN closures :
        closures[i].start < closures[i].end /\ closures[i].end = today
  /\ Len(closed_today) = 1

\* C2: each of the five pairs yields exactly one interval when both of its
\* normalized bounds are dates and none otherwise, so the list holds at
\* most five intervals, each with both bounds resolved and equal to the pair.
C2_BothBoundsOrNoInterval ==
  /\ Len(closures) <= 5
  /\ \A c \in Cols :
        Cardinality({i \in DOMAIN closures : closures[i].remarks = ColRemarks(c)})
          = IF df[RowShown].startdate[c] # NaT /\ df[RowShown].enddate[c] # NaT
            THEN 1 ELSE 0
  /\ \A i \in DOMAIN closures :
        /\ closures[i].start # NaT
        /\ closures[i].end # NaT
        /\ closures[i].start = df[RowShown].startdate[ColOf(closures[i])]
        /\ closures[i].end = df[RowShown].enddate[ColOf(closures[i])]
        /\ closures[i].type = ColType(ColOf(closures[i]))

\* a pair with start "TBC" and a dated end is dropped next to a kept pair
C2_Witness ==
  /\ \E c \in Cols :
        /\ csv[RowShown].startdate[c] = TBC
        /\ df[RowShown].enddate[c] # NaT
        /\ \A i \in DOMAIN closures : closures[i].remarks # ColRemarks(c)
  /\ Len(closures) = 1

\* C3: the upcoming closures are exactly the intervals of the list that
\* start after the date, in the list's order, which is the order
\* q1, q2, q3, q4, other works; no list, no upcoming closures.
C3_UpcomingStrictlyAfterInOrder ==
  LET later == {i \in DOMAIN closures : closures[i].start > today}
      nth(k) == CHOOSE i \in later : Cardinality({j \in later : j < i}) = k - 1
  IN  /\ Len(upcoming) = Cardinality(later)
      /\ \A k \in DOMAIN upcoming : upcoming[k] = closures[nth(k)]
      /\ \A i, j \in DOMAIN closures :
            i < j => ColOf(closures[i]) < ColOf(closures[j])
      /\ closures = <<>> => upcoming = <<>>
      /\ \A k \in DOMAIN events :
            /\ events[k].begin = upcoming[k].start
            /\ events[k].begin > today
      /\ Len(events) = Len(upcoming)

\* two upcoming closures, the later one listed first, beside a closure that
\* starts on the date itself and is left out
C3_Witness ==
  /\ Len(upcoming) = 2
  /\ upcoming[1].start > upcoming[2].start
  /\ Len(closures) = 2

\* C4: the nearby list holds exactly the (name, distance) of the rows whose
\* name is not the selected one, whose distance from the selected centre is
\* below the radius (a row at the radius is left out) and which are open on
\* the date; when no row qualifies the list is empty and a note is shown.
C4_NearbyExactlyQualifying ==
  LET dist(r) == IF df[r].latitude_hc >= df[RowShown].latitude_hc
                 THEN df[r].latitude_hc - df[RowShown].latitude_hc
                 ELSE df[RowShown].latitude_hc - df[r].latitude_hc
      ok == {r \in DOMAIN df :
               /\ df[r].name # selected
               /\ dist(r) < RadiusKm
               /\ ~ClosedOn(r, today)}
  IN  /\ Range(nearby_shown) = {[name |-> df[r].name, distance |-> dist(r)] : r \in ok}
      /\ ok = {} => nearby_shown = <<>> /\ nearby_msg = "none_nearby"
      /\ ok # {} => nearby_msg = "table"

\* one open centre within the radius is listed while an open centre exactly
\* RadiusKm away is not
C4_Witness ==
  /\ Len(nearby_shown) = 1
  /\ \E r \in DOMAIN df :
        /\ df[r].name # selected
        /\ ~markers[r].closed
        /\ df[r].latitude_hc - df[RowShown].latitude_hc = RadiusKm

\* C5: the nearby list shows no name twice, is in ascending order of
\* distance, and lists rows of equal distance in their order in the table.
C5_DedupByNameStableOrder ==
  LET first(e) == CHOOSE r \in DOMAIN df :
                    /\ df[r].name = e.name
                    /\ \A j \in 1 .. (r - 1) : df[j].name # e.name
  IN  /\ \A i, j \in DOMAIN nearby_shown :
            i # j => nearby_shown[i].name # nearby_shown[j].name
      /\ \A i, j \in DOMAIN nearby_shown :
            i < j => nearby_shown[i].distance <= nearby_shown[j].distance
      /\ \A i, j \in DOMAIN nearby_shown :
            (i < j /\ nearby_shown[i].distance = nearby_shown[j].distance)
              => first(nearby_shown[i]) < first(nearby_shown[j])

\* what a cell of the raw table is to become: NaT for a text with the
\* placeholder in it, the date for a text that is a date written DDMMYYYY,
\* NaT for any other text
TwoDigits(n) == <<DigitChar(n \div 10), DigitChar(n % 10)>>

WrittenDates(text) ==
  IF Len(text) # 8 THEN {}
  ELSE {w \in {d \in 1 .. 31 : TwoDigits(d) = SubSeq(text, 1, 2)}
               \X {m \in 1 .. 12 : TwoDigits(m) = SubSeq(text, 3, 4)}
               \X {y \in (DataYear - 1) .. (DataYear + 1) :
                     TwoDigits(y \div 100) \o TwoDigits(y % 100) = SubSeq(text, 5, 8)} :
          w[1] <= DaysInMonth(w[3], w[2])}

Expected(text) ==
  IF text = <<>> THEN NaT
  ELSE IF \E i \in 1 .. (Len(text) - 2) : SubSeq(text, i, i + 2) = <<"T", "B", "C">>
       THEN NaT
       ELSE LET written == WrittenDates(text)
            IN  IF written = {} THEN NaT
                ELSE LET w == CHOOSE x \in written : TRUE
                     IN  ToOrdinal(w[3], w[2], w[1])

C7_FavouritesAddOnly ==
  /\ [](NoRepeat(favourites) /\ Range(favourites) = addLog)
  /\ [][\/ favourites' = favourites
        \/ /\ selected' = selected
           /\ addLog' = addLog \cup {selected}
           /\ selected \notin Range(favourites)
           /\ favourites' = Append(favourites, selected)]_vars

\* the second centre of the list was added first, then the first one, and
\* the button was pressed again
C7_Witness ==
  /\ Len(favourites) = 2
  /\ favourites[1] = NameOrder[2]
  /\ favourites[2] = NameOrder[1]
  /\ selected = NameOrder[2]

\* C8: "no confirmed closure dates" is shown exactly when the closure list
\* is empty, and the status is then open; a non-empty list with no interval
\* around the date gives open without that advisory.
C8_AdvisoryIffNoIntervals ==
  LET covered == \E i \in DOMAIN closures :
                    closures[i].start <= today /\ today <= closures[i].end
  IN  /\ warning = "no_confirmed_dates" <=> closures = <<>>
      /\ closures = <<>> => status = "OPEN"
      /\ (closures # <<>> /\ ~covered) => (status = "OPEN" /\ warning = "none")

\* a centre whose only pair is half filled in: no interval, the advisory,
\* status open
C8_Witness ==
  /\ closures = <<>>
  /\ warning = "no_confirmed_dates"
  /\ status = "OPEN"
  /\ \E c \in Cols : df[RowShown].startdate[c] # NaT /\ df[RowShown].enddate[c] = NaT

\* C9: in a table of unique names, the status of the selected centre is
\* "closed" exactly when is_open_today is false of its row, which is what
\* the row's marker shows.
C9_StatusAgreesWithRowCheck ==
  NamesUnique =>
    \A r \in DOMAIN df :
       df[r].name = selected =>
         /\ status = "CLOSED" <=> ~is_open_today(df[r], today)
         /\ status = "CLOSED" <=> markers[r].closed

\* the second of two centres is selected and closed for other works
C9_Witness ==
  /\ NamesUnique
  /\ Len(df) = 2
  /\ selected = df[2].name
  /\ status = "CLOSED"
  /\ markers[2].closed
  /\ ~markers[1].closed

\* C10: every interval of the closure list, every upcoming closure and
\* every calendar event has its start on or before its end.
C10_NoInvertedInterval ==
  /\ \A i \in DOMAIN closures : closures[i].start <= closures[i].end
  /\ \A i \in DOMAIN upcoming : upcoming[i].start <= upcoming[i].end
  /\ \A i \in DOMAIN events : events[i].begin <= events[i].end

====
